---- MODULE Spec2Model ----
(***************************************************************************)
(* Model of ddsketch/store.py: the DenseStore and the                      *)
(* CollapsingLowestDenseStore, their add / merge / copy operations and the *)
(* rank queries.  Two store objects `self` and `store` (the argument of    *)
(* merge) are modelled; a Python list is a TLA+ sequence, so the Python    *)
(* index i is the position i + 1.                                          *)
(***************************************************************************)
EXTENDS Integers, Sequences, FiniteSets, TLC

\* ---------------------------------------------------------------- constants
INITIAL_NBINS == 128
CHUNK_SIZE == 128

\* ------------------------------------------------------------------- bounds
\* keys passed to add are drawn from 0..KeyMax
KeyMax == 3
\* total number of add calls in a behaviour
MaxAdds == 3
\* number of merge calls in a behaviour
MaxMerges == 1
\* constructor arguments are drawn from 1..MaxBinsArg, 0..MaxInitArg, 1..MaxChunkArg
MaxBinsArg == 3
MaxInitArg == 2
MaxChunkArg == 2
\* the chunk specification uses max_bins = CHUNK_SIZE + BigBinsExtra (cap out of reach)
BigBinsExtra == 3

Keys == 0..KeyMax

\* ------------------------------------------------------------------ helpers
Min(a, b) == IF a < b THEN a ELSE b
Max(a, b) == IF a > b THEN a ELSE b

\* [0] * n  (a non-positive n gives the empty list)
Zeros(n) == IF n <= 0 THEN << >> ELSE [i \in 1..n |-> 0]

\* seq[:n]
PySliceTo(seq, n) ==
    IF n >= 0 THEN SubSeq(seq, 1, Min(n, Len(seq)))
    ELSE SubSeq(seq, 1, Max(0, Len(seq) + n))

\* seq[n:]
PySliceFrom(seq, n) ==
    IF n >= 0 THEN SubSeq(seq, Min(n, Len(seq)) + 1, Len(seq))
    ELSE SubSeq(seq, Max(0, Len(seq) + n) + 1, Len(seq))

\* seq[i] is defined for -len <= i < len; a negative i counts from the end
PyIndexOk(seq, i) == i >= 0 - Len(seq) /\ i < Len(seq)
PyPos(seq, i) == IF i >= 0 THEN i + 1 ELSE Len(seq) + i + 1

\* np.sum / sum over a list of counters
RECURSIVE SumSeq(_)
SumSeq(seq) == IF Len(seq) = 0 THEN 0 ELSE seq[1] + SumSeq(Tail(seq))

\* math.ceil(a / c) for c /= 0
CeilDiv(a, c) ==
    IF c > 0 THEN 0 - ((0 - a) \div c)
    ELSE 0 - (a \div (0 - c))

\* ------------------------------------------------------------ construction
\* DenseStore.__init__
DenseStore_init(initial_nbins, chunk_size) ==
    [ kind               |-> "DenseStore",
      max_bins           |-> 0,
      initial_nbins      |-> initial_nbins,
      chunk_size         |-> chunk_size,
      initial_chunk_size |-> chunk_size,
      count              |-> 0,
      min_key            |-> 0,
      max_key            |-> 0,
      bins               |-> Zeros(initial_nbins) ]

\* CollapsingLowestDenseStore.__init__: super().__init__() is called without
\* arguments, so chunk_size is the module default
CollapsingLowestDenseStore_init(max_bins, initial_nbins, chunk_size) ==
    LET base == DenseStore_init(INITIAL_NBINS, CHUNK_SIZE)
    IN  [ base EXCEPT !.kind               = "CollapsingLowestDenseStore",
                      !.max_bins           = max_bins,
                      !.initial_nbins      = Min(max_bins, initial_nbins),
                      !.initial_chunk_size = Min(max_bins, chunk_size),
                      !.bins               = Zeros(Min(max_bins, initial_nbins)) ]

\* the constructor call described by an argument record
Construct(a) ==
    IF a.kind = "DenseStore"
    THEN DenseStore_init(a.initial_nbins, a.chunk_size)
    ELSE CollapsingLowestDenseStore_init(a.max_bins, a.initial_nbins, a.chunk_size)

\* ------------------------------------------------------------------- growth
\* DenseStore.length
length(s) == Len(s.bins)

\* DenseStore._grow_by; raises ZeroDivisionError when chunk_size = 0
grow_by_raises(s) == s.chunk_size = 0
grow_by(s, required_growth) ==
    IF s.chunk_size = 0 THEN 0
    ELSE s.chunk_size * CeilDiv(required_growth, s.chunk_size)

\* DenseStore._grow_left
DenseStore_grow_left(s, key) ==
    IF s.min_key < key THEN s
    ELSE LET min_key == s.min_key - grow_by(s, s.min_key - key)
         IN  [ s EXCEPT !.bins    = Zeros(s.min_key - min_key) \o s.bins,
                        !.min_key = min_key ]

\* DenseStore._grow_right
DenseStore_grow_right(s, key) ==
    IF s.max_key > key THEN s
    ELSE LET max_key == s.max_key + grow_by(s, key - s.max_key)
         IN  [ s EXCEPT !.bins    = s.bins \o Zeros(max_key - s.max_key),
                        !.max_key = max_key ]

\* CollapsingLowestDenseStore._grow_left
CollapsingLowestDenseStore_grow_left(s, key) ==
    IF s.min_key < key \/ Len(s.bins) >= s.max_bins THEN s
    ELSE LET min_possible == s.max_key - s.max_bins + 1
             min_key ==
                 IF s.max_key - key >= s.max_bins THEN min_possible
                 ELSE Max(s.min_key - grow_by(s, s.min_key - key), min_possible)
         IN  [ s EXCEPT !.bins    = Zeros(s.min_key - min_key) \o s.bins,
                        !.min_key = min_key ]

\* Faulty variant of CollapsingLowestDenseStore._grow_right: the window shift
\* slices the array but forgets bins[0] += ct_to_compress
CollapsingLowestDenseStore_grow_right_nofold(s, key) ==
    IF s.max_key > key THEN s
    ELSE IF key - s.max_key >= s.max_bins THEN
        [ s EXCEPT !.bins    = IF s.max_bins <= 0 THEN << >>
                               ELSE [ Zeros(s.max_bins) EXCEPT ![1] = s.count ],
                   !.max_key = key,
                   !.min_key = key - s.max_bins + 1 ]
    ELSE IF key - s.min_key >= s.max_bins THEN
        LET min_key == key - s.max_bins + 1
        IN  [ s EXCEPT !.bins    = PySliceFrom(s.bins, min_key - s.min_key)
                                       \o Zeros(key - s.max_key),
                       !.max_key = key,
                       !.min_key = min_key ]
    ELSE
        LET max_key == Min(s.max_key + grow_by(s, key - s.max_key),
                           s.min_key + s.max_bins)
        IN  [ s EXCEPT !.bins    = s.bins \o Zeros(max_key - s.max_key),
                       !.max_key = max_key ]

\* Faulty variant of CollapsingLowestDenseStore._grow_right: the full collapse
\* resets the array but forgets bins[0] = self.count
CollapsingLowestDenseStore_grow_right_dropcount(s, key) ==
    IF s.max_key > key THEN s
    ELSE IF key - s.max_key >= s.max_bins THEN
        [ s EXCEPT !.bins    = Zeros(s.max_bins),
                   !.max_key = key,
                   !.min_key = key - s.max_bins + 1 ]
    ELSE IF key - s.min_key >= s.max_bins THEN
        LET min_key        == key - s.max_bins + 1
            ct_to_compress == SumSeq(PySliceTo(s.bins, min_key - s.min_key))
            kept           == PySliceFrom(s.bins, min_key - s.min_key)
                                  \o Zeros(key - s.max_key)
        IN  [ s EXCEPT !.bins    = IF Len(kept) = 0 THEN kept
                                   ELSE [ kept EXCEPT ![1] = @ + ct_to_compress ],
                       !.max_key = key,
                       !.min_key = min_key ]
    ELSE
        LET max_key == Min(s.max_key + grow_by(s, key - s.max_key),
                           s.min_key + s.max_bins)
        IN  [ s EXCEPT !.bins    = s.bins \o Zeros(max_key - s.max_key),
                       !.max_key = max_key ]

\* Faulty variant of CollapsingLowestDenseStore._grow_right: the window shift
\* keeps one bin too many, self.bins[min_key - self.min_key - 1:], and drops
\* the last one to keep the length
CollapsingLowestDenseStore_grow_right_lateslice(s, key) ==
    IF s.max_key > key THEN s
    ELSE IF key - s.max_key >= s.max_bins THEN
        [ s EXCEPT !.bins    = IF s.max_bins <= 0 THEN << >>
                               ELSE [ Zeros(s.max_bins) EXCEPT ![1] = s.count ],
                   !.max_key = key,
                   !.min_key = key - s.max_bins + 1 ]
    ELSE IF key - s.min_key >= s.max_bins THEN
        LET min_key        == key - s.max_bins + 1
            cut            == min_key - s.min_key - 1
            ct_to_compress == SumSeq(PySliceTo(s.bins, cut))
            kept           == PySliceFrom(s.bins, cut) \o Zeros(key - s.max_key - 1)
        IN  [ s EXCEPT !.bins    = IF Len(kept) = 0 THEN kept
                                   ELSE [ kept EXCEPT ![1] = @ + ct_to_compress ],
                       !.max_key = key,
                       !.min_key = min_key ]
    ELSE
        LET max_key == Min(s.max_key + grow_by(s, key - s.max_key),
                           s.min_key + s.max_bins)
        IN  [ s EXCEPT !.bins    = s.bins \o Zeros(max_key - s.max_key),
                       !.max_key = max_key ]

\* CollapsingLowestDenseStore._grow_right
CollapsingLowestDenseStore_grow_right(s, key) ==
    IF s.max_key > key THEN s
    ELSE IF key - s.max_key >= s.max_bins THEN
        \* everything goes into the first bin; bins[0] = count raises on an empty list
        [ s EXCEPT !.bins    = IF s.max_bins <= 0 THEN << >>
                               ELSE [ Zeros(s.max_bins) EXCEPT ![1] = s.count ],
                   !.max_key = key,
                   !.min_key = key - s.max_bins + 1 ]
    ELSE IF key - s.min_key >= s.max_bins THEN
        LET min_key        == key - s.max_bins + 1
            ct_to_compress == SumSeq(PySliceTo(s.bins, min_key - s.min_key))
            kept           == PySliceFrom(s.bins, min_key - s.min_key)
                                  \o Zeros(key - s.max_key)
        IN  [ s EXCEPT !.bins    = IF Len(kept) = 0 THEN kept
                                   ELSE [ kept EXCEPT ![1] = @ + ct_to_compress ],
                       !.max_key = key,
                       !.min_key = min_key ]
    ELSE
        LET max_key == Min(s.max_key + grow_by(s, key - s.max_key),
                           s.min_key + s.max_bins)
        IN  [ s EXCEPT !.bins    = s.bins \o Zeros(max_key - s.max_key),
                       !.max_key = max_key ]

\* Faulty variant of the dispatch: the collapsing store does not override
\* _grow_left and grows to the left like a DenseStore
grow_left_notoverridden(s, key) == DenseStore_grow_left(s, key)

\* dynamic dispatch of self._grow_left / self._grow_right
grow_left(s, key) ==
    IF s.kind = "DenseStore" THEN DenseStore_grow_left(s, key)
    ELSE CollapsingLowestDenseStore_grow_left(s, key)

grow_right(s, key) ==
    IF s.kind = "DenseStore" THEN DenseStore_grow_right(s, key)
    ELSE CollapsingLowestDenseStore_grow_right(s, key)

\* exceptions raised inside the growth methods ("none" when the call returns)
DenseStore_grow_left_raises(s, key) ==
    IF s.min_key < key THEN "none"
    ELSE IF grow_by_raises(s) THEN "ZeroDivisionError" ELSE "none"

DenseStore_grow_right_raises(s, key) ==
    IF s.max_key > key THEN "none"
    ELSE IF grow_by_raises(s) THEN "ZeroDivisionError" ELSE "none"

CollapsingLowestDenseStore_grow_left_raises(s, key) ==
    IF s.min_key < key \/ Len(s.bins) >= s.max_bins THEN "none"
    ELSE IF s.max_key - key >= s.max_bins THEN "none"
    ELSE IF grow_by_raises(s) THEN "ZeroDivisionError" ELSE "none"

CollapsingLowestDenseStore_grow_right_raises(s, key) ==
    IF s.max_key > key THEN "none"
    ELSE IF key - s.max_key >= s.max_bins THEN
        IF s.max_bins <= 0 THEN "IndexError" ELSE "none"
    ELSE IF key - s.min_key >= s.max_bins THEN
        IF Len(CollapsingLowestDenseStore_grow_right(s, key).bins) = 0
        THEN "IndexError" ELSE "none"
    ELSE IF grow_by_raises(s) THEN "ZeroDivisionError" ELSE "none"

grow_left_raises(s, key) ==
    IF s.kind = "DenseStore" THEN DenseStore_grow_left_raises(s, key)
    ELSE CollapsingLowestDenseStore_grow_left_raises(s, key)

grow_right_raises(s, key) ==
    IF s.kind = "DenseStore" THEN DenseStore_grow_right_raises(s, key)
    ELSE CollapsingLowestDenseStore_grow_right_raises(s, key)

\* the object as a raising growth call leaves it: _grow_by raises before any
\* assignment, the bins[0] writes raise after the other assignments
after_raise(s, grown, exc) == IF exc = "ZeroDivisionError" THEN s ELSE grown

\* ---------------------------------------------------------------------- add
\* DenseStore.add up to the growth calls (lines 89-97)
add_grow(s, key) ==
    LET s0 == IF Len(s.bins) = 0
              THEN [ s EXCEPT !.bins = Zeros(s.initial_chunk_size) ]
              ELSE s
    IN  IF s0.count = 0
        THEN [ s0 EXCEPT !.max_key = key, !.min_key = key - Len(s0.bins) + 1 ]
        ELSE IF key < s0.min_key THEN grow_left(s0, key)
        ELSE IF key > s0.max_key THEN grow_right(s0, key)
        ELSE s0

\* Faulty variant of the index computation: key - self.min_key without the
\* max(0, ...) clamp
add_idx_noclamp(s, key) == key - add_grow(s, key).min_key

\* the index add increments
add_idx(s, key) == Max(0, key - add_grow(s, key).min_key)

\* the exception add raises on this object and key, "none" when it returns
add_raises(s, key) ==
    LET s0 == IF Len(s.bins) = 0
              THEN [ s EXCEPT !.bins = Zeros(s.initial_chunk_size) ]
              ELSE s
        g  == IF s0.count = 0 THEN "none"
              ELSE IF key < s0.min_key THEN grow_left_raises(s0, key)
              ELSE IF key > s0.max_key THEN grow_right_raises(s0, key)
              ELSE "none"
    IN  IF g # "none" THEN g
        ELSE IF ~PyIndexOk(add_grow(s, key).bins, add_idx(s, key)) THEN "IndexError"
        ELSE "none"

\* DenseStore.add: the object after the call (after the raise, when it raises)
add(s, key) ==
    LET s0  == IF Len(s.bins) = 0
               THEN [ s EXCEPT !.bins = Zeros(s.initial_chunk_size) ]
               ELSE s
        s1  == add_grow(s, key)
        exc == add_raises(s, key)
        idx == add_idx(s, key)
    IN  IF exc = "none"
        THEN [ s1 EXCEPT !.bins[PyPos(s1.bins, idx)] = @ + 1, !.count = @ + 1 ]
        ELSE after_raise(s0, s1, exc)

\* ------------------------------------------------------------ rank queries
\* DenseStore.key_at_rank: the loop from index i (0-based) with running_ct
RECURSIVE key_at_rank_loop(_, _, _, _)
key_at_rank_loop(s, rank, i, running_ct) ==
    IF i >= Len(s.bins) THEN s.max_key
    ELSE IF running_ct + s.bins[i + 1] >= rank THEN i + s.min_key
    ELSE key_at_rank_loop(s, rank, i + 1, running_ct + s.bins[i + 1])

\* Faulty variant of key_at_rank: the test is running_ct > rank
key_at_rank_strict(s, rank) == key_at_rank_loop(s, rank + 1, 0, 0)

key_at_rank(s, rank) == key_at_rank_loop(s, rank, 0, 0)

\* DenseStore.reversed_key_at_rank: the loop downwards from index i
RECURSIVE reversed_key_at_rank_loop(_, _, _, _)
reversed_key_at_rank_loop(s, rank, i, running_ct) ==
    IF i < 0 THEN s.min_key
    ELSE IF running_ct + s.bins[i + 1] >= rank THEN i + s.min_key
    ELSE reversed_key_at_rank_loop(s, rank, i - 1, running_ct + s.bins[i + 1])

\* Faulty variant of reversed_key_at_rank: the test is running_ct > rank
reversed_key_at_rank_strict(s, rank) ==
    reversed_key_at_rank_loop(s, rank + 1, Len(s.bins) - 1, 0)

\* Faulty variant of reversed_key_at_rank: the loop starts one bin below the
\* top, at index len(self.bins) - 2
reversed_key_at_rank_skiptop(s, rank) ==
    reversed_key_at_rank_loop(s, rank, Len(s.bins) - 2, 0)

reversed_key_at_rank(s, rank) ==
    reversed_key_at_rank_loop(s, rank, Len(s.bins) - 1, 0)

\* ----------------------------------------------------------- copy and merge
\* DenseStore.copy
DenseStore_copy(s, o) ==
    [ s EXCEPT !.bins = o.bins, !.count = o.count,
               !.min_key = o.min_key, !.max_key = o.max_key ]

\* CollapsingLowestDenseStore.copy
CollapsingLowestDenseStore_copy(s, o) ==
    DenseStore_copy([ s EXCEPT !.max_bins = o.max_bins ], o)

copy(s, o) ==
    IF s.kind = "DenseStore" THEN DenseStore_copy(s, o)
    ELSE CollapsingLowestDenseStore_copy(s, o)

\* for i in range(i, hi + 1): dst[i - dmin] += src[i - smin]; the list as the
\* loop leaves it, and the exception that ended it
RECURSIVE add_bins(_, _, _, _, _, _)
add_bins(dst, dmin, src, smin, i, hi) ==
    IF i > hi THEN [ bins |-> dst, exc |-> "none" ]
    ELSE IF ~PyIndexOk(dst, i - dmin) \/ ~PyIndexOk(src, i - smin)
    THEN [ bins |-> dst, exc |-> "IndexError" ]
    ELSE add_bins([ dst EXCEPT ![PyPos(dst, i - dmin)] =
                                   @ + src[PyPos(src, i - smin)] ],
                  dmin, src, smin, i + 1, hi)

\* Faulty variant of the first merge branch: the part of store below
\* self.min_key is not folded into bins[0]
merge_above_nofold(s, o) ==
    LET left == o.min_key < s.min_key
        g    == IF left THEN grow_left_raises(s, o.min_key) ELSE "none"
        s1   == IF left THEN grow_left(s, o.min_key) ELSE s
        lp   == add_bins(s1.bins, s1.min_key, o.bins, o.min_key,
                         Max(s1.min_key, o.min_key), o.max_key)
        s2   == [ s1 EXCEPT !.bins = lp.bins ]
    IN  IF g # "none" THEN [ st |-> after_raise(s, s1, g), exc |-> g ]
        ELSE IF lp.exc # "none" THEN [ st |-> s2, exc |-> lp.exc ]
        ELSE [ st |-> [ s2 EXCEPT !.count = @ + o.count ], exc |-> "none" ]

\* DenseStore.merge, branch self.max_key > store.max_key (lines 147-156)
merge_above(s, o) ==
    LET left == o.min_key < s.min_key
        g    == IF left THEN grow_left_raises(s, o.min_key) ELSE "none"
        s1   == IF left THEN grow_left(s, o.min_key) ELSE s
        lp   == add_bins(s1.bins, s1.min_key, o.bins, o.min_key,
                         Max(s1.min_key, o.min_key), o.max_key)
        s2   == [ s1 EXCEPT !.bins = lp.bins ]
        fold == s2.min_key > o.min_key
        ct_to_compress == SumSeq(PySliceTo(o.bins, s2.min_key - o.min_key))
    IN  IF g # "none" THEN [ st |-> after_raise(s, s1, g), exc |-> g ]
        ELSE IF lp.exc # "none" THEN [ st |-> s2, exc |-> lp.exc ]
        ELSE IF fold /\ Len(s2.bins) = 0 THEN [ st |-> s2, exc |-> "IndexError" ]
        ELSE [ st  |-> [ s2 EXCEPT
                            !.bins  = IF fold
                                      THEN [ s2.bins EXCEPT ![1] = @ + ct_to_compress ]
                                      ELSE s2.bins,
                            !.count = @ + o.count ],
               exc |-> "none" ]

\* Faulty variant of the rebuilding merge branch: the keys of store are
\* adopted but self.bins = tmp is left out
merge_into_tmp_keepbins(s, o) ==
    LET lp == add_bins(o.bins, o.min_key, s.bins, s.min_key, s.min_key, s.max_key)
    IN  IF lp.exc # "none" THEN [ st |-> s, exc |-> lp.exc ]
        ELSE [ st  |-> [ s EXCEPT !.max_key = o.max_key,
                                  !.min_key = o.min_key,
                                  !.count   = @ + o.count ],
               exc |-> "none" ]

\* DenseStore.merge, branch store.min_key < self.min_key (lines 158-164)
merge_into_tmp(s, o) ==
    LET lp == add_bins(o.bins, o.min_key, s.bins, s.min_key, s.min_key, s.max_key)
    IN  IF lp.exc # "none" THEN [ st |-> s, exc |-> lp.exc ]
        ELSE [ st  |-> [ s EXCEPT !.bins    = lp.bins,
                                  !.max_key = o.max_key,
                                  !.min_key = o.min_key,
                                  !.count   = @ + o.count ],
               exc |-> "none" ]

\* Faulty variant of the last merge branch: the loop stops one key early,
\* range(store.min_key, store.max_key)
merge_right_shortloop(s, o) ==
    LET g  == grow_right_raises(s, o.max_key)
        s1 == grow_right(s, o.max_key)
        lp == add_bins(s1.bins, s1.min_key, o.bins, o.min_key, o.min_key,
                       o.max_key - 1)
        s2 == [ s1 EXCEPT !.bins = lp.bins ]
    IN  IF g # "none" THEN [ st |-> after_raise(s, s1, g), exc |-> g ]
        ELSE IF lp.exc # "none" THEN [ st |-> s2, exc |-> lp.exc ]
        ELSE [ st |-> [ s2 EXCEPT !.count = @ + o.count ], exc |-> "none" ]

\* DenseStore.merge, last branch (lines 165-168)
merge_right(s, o) ==
    LET g  == grow_right_raises(s, o.max_key)
        s1 == grow_right(s, o.max_key)
        lp == add_bins(s1.bins, s1.min_key, o.bins, o.min_key, o.min_key, o.max_key)
        s2 == [ s1 EXCEPT !.bins = lp.bins ]
    IN  IF g # "none" THEN [ st |-> after_raise(s, s1, g), exc |-> g ]
        ELSE IF lp.exc # "none" THEN [ st |-> s2, exc |-> lp.exc ]
        ELSE [ st |-> [ s2 EXCEPT !.count = @ + o.count ], exc |-> "none" ]

\* Faulty variant of merge: an empty self is not special-cased, its
\* placeholder keys are merged like a window
merge_run_nocopy(s, o) ==
    IF o.count = 0 THEN [ st |-> s, exc |-> "none" ]
    ELSE IF s.max_key > o.max_key THEN merge_above(s, o)
    ELSE IF o.min_key < s.min_key THEN merge_into_tmp(s, o)
    ELSE merge_right(s, o)

\* DenseStore.merge: the object after the call and the exception raised
merge_run(s, o) ==
    IF o.count = 0 THEN [ st |-> s, exc |-> "none" ]
    ELSE IF s.count = 0 THEN [ st |-> copy(s, o), exc |-> "none" ]
    ELSE IF s.max_key > o.max_key THEN merge_above(s, o)
    ELSE IF o.min_key < s.min_key THEN merge_into_tmp(s, o)
    ELSE merge_right(s, o)

merge(s, o) == merge_run(s, o).st
merge_raises(s, o) == merge_run(s, o).exc

\* ------------------------------------------------------------- subscripts
\* the subscript add evaluates (line 100), with the length of the list
add_subscripts(s, key) ==
    { [ i |-> add_idx(s, key), n |-> Len(add_grow(s, key).bins) ] }

\* the subscripts of one pass of a merge loop over keys lo..hi:
\* dst[k - dmin] and src[k - smin]
loop_subscripts(dst, dmin, src, smin, lo, hi) ==
    UNION { { [ i |-> k - dmin, n |-> Len(dst) ],
              [ i |-> k - smin, n |-> Len(src) ] } : k \in lo..hi }

\* the subscripts merge evaluates (lines 152, 156, 161 and 168) when no
\* subscript raises
merge_subscripts(s, o) ==
    IF o.count = 0 \/ s.count = 0 THEN {}
    ELSE IF s.max_key > o.max_key
    THEN LET s1 == IF o.min_key < s.min_key THEN grow_left(s, o.min_key) ELSE s
         IN  loop_subscripts(s1.bins, s1.min_key, o.bins, o.min_key,
                             Max(s1.min_key, o.min_key), o.max_key)
             \cup (IF s1.min_key > o.min_key
                   THEN { [ i |-> 0, n |-> Len(s1.bins) ] } ELSE {})
    ELSE IF o.min_key < s.min_key
    THEN loop_subscripts(o.bins, o.min_key, s.bins, s.min_key,
                         s.min_key, s.max_key)
    ELSE LET s1 == grow_right(s, o.max_key)
         IN  loop_subscripts(s1.bins, s1.min_key, o.bins, o.min_key,
                             o.min_key, o.max_key)

\* ------------------------------------------------------------ list identity
\* Lists are objects: two stores whose bins attribute is the same list see
\* each other's in-place writes. An assignment self.bins = <new list> ends the
\* sharing; subscript assignment, extend and slice assignment do not.

\* Faulty variant of copy: self.bins = store.bins, without the slice
DenseStore_copy_shares_noslice(s, o) == TRUE

\* whether copy leaves self.bins the same list object as store.bins:
\* store.bins[:] is a new list (line 173)
DenseStore_copy_shares(s, o) == FALSE

\* whether tmp in merge is the same list object as store.bins:
\* tmp = store.bins[:] is a new list (line 159)
merge_into_tmp_shares(s, o) == FALSE

\* whether CollapsingLowestDenseStore._grow_right assigns a new list to
\* self.bins (lines 229 and 237); DenseStore._grow_right extends in place
grow_right_rebinds(s, key) ==
    /\ s.kind = "CollapsingLowestDenseStore"
    /\ ~(s.max_key > key)
    /\ (key - s.max_key >= s.max_bins \/ key - s.min_key >= s.max_bins)

\* whether add assigns a new list to self.bins (line 90 and _grow_right)
add_rebinds(s, key) ==
    \/ Len(s.bins) = 0
    \/ s.count # 0 /\ ~(key < s.min_key) /\ key > s.max_key
          /\ grow_right_rebinds(s, key)

\* the loop of add_bins when dst and src are the same list object
RECURSIVE add_bins_shared(_, _, _, _, _)
add_bins_shared(lst, dmin, smin, i, hi) ==
    IF i > hi THEN [ bins |-> lst, exc |-> "none" ]
    ELSE IF ~PyIndexOk(lst, i - dmin) \/ ~PyIndexOk(lst, i - smin)
    THEN [ bins |-> lst, exc |-> "IndexError" ]
    ELSE add_bins_shared([ lst EXCEPT ![PyPos(lst, i - dmin)] =
                                          @ + lst[PyPos(lst, i - smin)] ],
                         dmin, smin, i + 1, hi)

\* merge, branch self.max_key > store.max_key, when store.bins is self.bins
merge_above_shared(s, o) ==
    LET left == o.min_key < s.min_key
        g    == IF left THEN grow_left_raises(s, o.min_key) ELSE "none"
        s1   == IF left THEN grow_left(s, o.min_key) ELSE s
        lp   == add_bins_shared(s1.bins, s1.min_key, o.min_key,
                                Max(s1.min_key, o.min_key), o.max_key)
        s2   == [ s1 EXCEPT !.bins = lp.bins ]
        fold == s2.min_key > o.min_key
        ct_to_compress == SumSeq(PySliceTo(s2.bins, s2.min_key - o.min_key))
    IN  IF g # "none" THEN [ st |-> after_raise(s, s1, g), exc |-> g ]
        ELSE IF lp.exc # "none" THEN [ st |-> s2, exc |-> lp.exc ]
        ELSE IF fold /\ Len(s2.bins) = 0 THEN [ st |-> s2, exc |-> "IndexError" ]
        ELSE [ st  |-> [ s2 EXCEPT
                            !.bins  = IF fold
                                      THEN [ s2.bins EXCEPT ![1] = @ + ct_to_compress ]
                                      ELSE s2.bins,
                            !.count = @ + o.count ],
               exc |-> "none" ]

\* merge, last branch, when store.bins is self.bins
merge_right_shared(s, o) ==
    LET g  == grow_right_raises(s, o.max_key)
        s1 == grow_right(s, o.max_key)
        lp == add_bins_shared(s1.bins, s1.min_key, o.min_key, o.min_key, o.max_key)
        s2 == [ s1 EXCEPT !.bins = lp.bins ]
    IN  IF grow_right_rebinds(s, o.max_key) THEN merge_right(s, o)
        ELSE IF g # "none" THEN [ st |-> after_raise(s, s1, g), exc |-> g ]
        ELSE IF lp.exc # "none" THEN [ st |-> s2, exc |-> lp.exc ]
        ELSE [ st |-> [ s2 EXCEPT !.count = @ + o.count ], exc |-> "none" ]

\* DenseStore.merge when store.bins is self.bins
merge_shared_run(s, o) ==
    IF o.count = 0 THEN [ st |-> s, exc |-> "none" ]
    ELSE IF s.count = 0 THEN [ st |-> copy(s, o), exc |-> "none" ]
    ELSE IF s.max_key > o.max_key THEN merge_above_shared(s, o)
    ELSE IF o.min_key < s.min_key THEN merge_into_tmp(s, o)
    ELSE merge_right_shared(s, o)

\* whether self.bins and store.bins are the same list object after
\* self.merge(store), given whether they were before
merge_shares(s, o, shared) ==
    IF o.count = 0 THEN shared
    ELSE IF s.count = 0 THEN DenseStore_copy_shares(s, o)
    ELSE IF s.max_key > o.max_key THEN shared
    ELSE IF o.min_key < s.min_key THEN merge_into_tmp_shares(s, o)
    ELSE shared /\ ~grow_right_rebinds(s, o.max_key)

\* -------------------------------------------------------------------- state
VARIABLES
    args,         \* the constructor arguments of the two objects
    constructed,  \* whether the constructors have run
    self,         \* the store that receives add and merge
    store,        \* the other store, the argument of merge
    added,        \* history: per object and key, the add calls folded into it
    nadds,        \* history: number of add calls made
    nmerges,      \* history: number of merge calls made
    last,         \* history: the last call, its arguments, result and the objects before it
    aliased,      \* whether self.bins and store.bins are the same list object
    err           \* the exception that ended the last call, "none" if it returned

vars == << args, constructed, self, store, added, nadds, nmerges, last, aliased, err >>

\* placeholder for an object that does not exist (yet)
NoStore ==
    [ kind |-> "none", max_bins |-> 0, initial_nbins |-> 0, chunk_size |-> 0,
      initial_chunk_size |-> 0, count |-> 0, min_key |-> 0, max_key |-> 0,
      bins |-> << >> ]

NoArgs == [ kind |-> "none", max_bins |-> 0, initial_nbins |-> 0, chunk_size |-> 0 ]

NoCall ==
    [ op |-> "none", target |-> "none", key |-> 0, rank |-> 0, result |-> 0,
      pre |-> NoStore, arg |-> NoStore ]

NoAdds == [ k \in Keys |-> 0 ]

DenseArgs ==
    [ kind : {"DenseStore"}, max_bins : {0},
      initial_nbins : 0..MaxInitArg, chunk_size : 1..MaxChunkArg ]

CollapsingArgs ==
    [ kind : {"CollapsingLowestDenseStore"}, max_bins : 1..MaxBinsArg,
      initial_nbins : 0..MaxInitArg, chunk_size : 1..MaxChunkArg ]

\* arguments the constructors accept without complaint but the specification
\* calls invalid: max_bins <= 0, chunk_size <= 0
AnyArgs ==
    [ kind : {"DenseStore"}, max_bins : {0},
      initial_nbins : 0..MaxInitArg, chunk_size : (0 - 1)..MaxChunkArg ]
    \cup
    [ kind : {"CollapsingLowestDenseStore"}, max_bins : (0 - 1)..MaxBinsArg,
      initial_nbins : 0..MaxInitArg, chunk_size : (0 - 1)..MaxChunkArg ]

\* the chunk specification: a cap that chunked growth cannot reach
BigArgs ==
    [ kind : {"CollapsingLowestDenseStore"},
      max_bins : {CHUNK_SIZE + BigBinsExtra},
      initial_nbins : 1..MaxInitArg, chunk_size : 1..MaxChunkArg ]

InvalidArgs(a) ==
    a.chunk_size <= 0 \/ (a.kind = "CollapsingLowestDenseStore" /\ a.max_bins <= 0)

Ready ==
    /\ constructed = TRUE
    /\ added = [ self |-> NoAdds, store |-> NoAdds ]
    /\ nadds = 0
    /\ nmerges = 0
    /\ last = NoCall
    /\ aliased = FALSE
    /\ err = "none"

\* two stores constructed with the same arguments
Init ==
    /\ args \in [ self : DenseArgs \cup CollapsingArgs,
                  store : DenseArgs \cup CollapsingArgs ]
    /\ args.self = args.store
    /\ self = Construct(args.self)
    /\ store = Construct(args.store)
    /\ Ready

\* ------------------------------------------------------------------ actions
Call(op, target, key, rank, result, pre, arg) ==
    [ op |-> op, target |-> target, key |-> key, rank |-> rank,
      result |-> result, pre |-> pre, arg |-> arg ]

\* self.add(key)
AddSelf(key) ==
    /\ constructed /\ err = "none" /\ nadds < MaxAdds
    /\ self' = add(self, key)
    /\ err' = add_raises(self, key)
    /\ added' = IF add_raises(self, key) = "none"
                THEN [ added EXCEPT !.self[key] = @ + 1 ] ELSE added
    /\ nadds' = nadds + 1
    /\ last' = Call("add", "self", key, 0, 0, self, store)
    /\ aliased' = (aliased /\ ~add_rebinds(self, key))
    /\ store' = IF aliased' THEN [ store EXCEPT !.bins = self'.bins ] ELSE store
    /\ UNCHANGED << args, constructed, nmerges >>

\* store.add(key)
AddStore(key) ==
    /\ constructed /\ err = "none" /\ nadds < MaxAdds
    /\ store' = add(store, key)
    /\ err' = add_raises(store, key)
    /\ added' = IF add_raises(store, key) = "none"
                THEN [ added EXCEPT !.store[key] = @ + 1 ] ELSE added
    /\ nadds' = nadds + 1
    /\ last' = Call("add", "store", key, 0, 0, store, self)
    /\ aliased' = (aliased /\ ~add_rebinds(store, key))
    /\ self' = IF aliased' THEN [ self EXCEPT !.bins = store'.bins ] ELSE self
    /\ UNCHANGED << args, constructed, nmerges >>

\* self.merge(store)
Merge ==
    LET run == IF aliased THEN merge_shared_run(self, store)
               ELSE merge_run(self, store)
    IN  /\ constructed /\ err = "none" /\ nmerges < MaxMerges
        /\ self' = run.st
        /\ err' = run.exc
        /\ added' = IF run.exc = "none"
                    THEN [ added EXCEPT !.self =
                               [ k \in Keys |-> added.self[k] + added.store[k] ] ]
                    ELSE added
        /\ nmerges' = nmerges + 1
        /\ last' = Call("merge", "self", 0, 0, 0, self, store)
        /\ aliased' = merge_shares(self, store, aliased)
        /\ store' = IF aliased' THEN [ store EXCEPT !.bins = self'.bins ] ELSE store
        /\ UNCHANGED << args, constructed, nadds >>

\* self.copy(store)
Copy ==
    /\ constructed /\ err = "none" /\ nmerges < MaxMerges
    /\ self' = copy(self, store)
    /\ added' = [ added EXCEPT !.self = added.store ]
    /\ nmerges' = nmerges + 1
    /\ last' = Call("copy", "self", 0, 0, 0, self, store)
    /\ aliased' = DenseStore_copy_shares(self, store)
    /\ UNCHANGED << args, constructed, store, nadds, err >>

\* self.key_at_rank(rank)
KeyAtRank(rank) ==
    /\ constructed /\ err = "none" /\ self.count > 0
    /\ last' = Call("key_at_rank", "self", 0, rank, key_at_rank(self, rank),
                    self, NoStore)
    /\ UNCHANGED << args, constructed, self, store, added, nadds, nmerges, aliased, err >>

\* self.reversed_key_at_rank(rank)
ReversedKeyAtRank(rank) ==
    /\ constructed /\ err = "none" /\ self.count > 0
    /\ last' = Call("reversed_key_at_rank", "self", 0, rank,
                    reversed_key_at_rank(self, rank), self, NoStore)
    /\ UNCHANGED << args, constructed, self, store, added, nadds, nmerges, aliased, err >>

\* the constructor call: neither __init__ validates its arguments
ConstructSelf ==
    /\ ~constructed
    /\ constructed' = TRUE
    /\ self' = Construct(args.self)
    /\ last' = Call("__init__", "self", 0, 0, 0, NoStore, NoStore)
    /\ UNCHANGED << args, store, added, nadds, nmerges, aliased, err >>

AddSelfAny == \E key \in Keys : AddSelf(key)
AddStoreAny == \E key \in Keys : AddStore(key)
KeyAtRankAny == \E rank \in 1..(MaxAdds + 1) : KeyAtRank(rank)
ReversedKeyAtRankAny == \E rank \in 1..(MaxAdds + 1) : ReversedKeyAtRank(rank)

\* ----------------------------------------------------------- specifications
\* add and merge on two stores of the same kind
Next == AddSelfAny \/ AddStoreAny \/ Merge

Spec == Init /\ [][Next]_vars

\* rank queries on a store reached by add
NextRank == AddSelfAny \/ KeyAtRankAny \/ ReversedKeyAtRankAny

SpecRank == Init /\ [][NextRank]_vars

\* add, merge and copy on two stores of the same kind
NextCopy == AddSelfAny \/ AddStoreAny \/ Merge \/ Copy

SpecCopy == Init /\ [][NextCopy]_vars

\* add and merge on two collapsing stores whose max_bins may differ
InitCapacity ==
    /\ args \in [ self : CollapsingArgs, store : CollapsingArgs ]
    /\ args.self.initial_nbins = args.store.initial_nbins
    /\ args.self.chunk_size = args.store.chunk_size
    /\ self = Construct(args.self)
    /\ store = Construct(args.store)
    /\ Ready

SpecCapacity == InitCapacity /\ [][Next]_vars

\* construction with any arguments, then add
InitCtor ==
    /\ args \in [ self : AnyArgs, store : {NoArgs} ]
    /\ constructed = FALSE
    /\ self = NoStore
    /\ store = NoStore
    /\ added = [ self |-> NoAdds, store |-> NoAdds ]
    /\ nadds = 0
    /\ nmerges = 0
    /\ last = NoCall
    /\ aliased = FALSE
    /\ err = "none"

NextCtor == ConstructSelf \/ AddSelfAny

SpecCtor == InitCtor /\ [][NextCtor]_vars

\* a collapsing store whose cap is out of reach of its growth
InitChunk ==
    /\ args \in [ self : BigArgs, store : {NoArgs} ]
    /\ self = Construct(args.self)
    /\ store = NoStore
    /\ Ready

NextChunk == AddSelfAny

SpecChunk == InitChunk /\ [][NextChunk]_vars

\* ------------------------------------------------------- claim vocabulary
Collapsing(s) == s.kind = "CollapsingLowestDenseStore"
Dense(s) == s.kind = "DenseStore"

\* the object a call was made on, as it is now
Target == IF last.target = "store" THEN store ELSE self

\* the keys that have a counter, and the counter of a key (0 outside the window)
WindowKeys(s) == s.min_key..(s.min_key + Len(s.bins) - 1)
CounterAt(s, k) == IF k \in WindowKeys(s) THEN s.bins[k - s.min_key + 1] ELSE 0

\* the sum of the counters of all keys <= k, and of all keys >= k
CumulativeUpTo(s, k) ==
    SumSeq(SubSeq(s.bins, 1, Min(Len(s.bins), Max(0, k - s.min_key + 1))))
CumulativeFrom(s, k) ==
    SumSeq(SubSeq(s.bins, Max(1, k - s.min_key + 1), Len(s.bins)))

\* number of add(k) calls recorded in a history (keys outside Keys are never added)
AddedAt(h, k) == IF k \in Keys THEN h[k] ELSE 0

\* every counter of s holds exactly the add calls of its key recorded in h
ExactCounters(s, h) ==
    \A k \in Keys \cup WindowKeys(s) : CounterAt(s, k) = AddedAt(h, k)

\* the same, for the keys strictly above the window's lowest key only
ExactAboveMinKey(s, h) ==
    \A k \in Keys \cup WindowKeys(s) :
        k > s.min_key => CounterAt(s, k) = AddedAt(h, k)

\* number of add calls recorded in a history
TotalAdded(h) == SumSeq([ i \in 1..(KeyMax + 1) |-> h[i - 1] ])

\* ------------------------------------------------------------------- claims
\* C1: a CollapsingLowestDenseStore reached by add calls alone never has more
\* than max_bins bins.
C1_LengthWithinMaxBins ==
    \A s \in {self, store} :
        (Collapsing(s) /\ nmerges = 0) => length(s) <= s.max_bins

\* C2: after every sequence of add calls (and merges), on both kinds of store,
\* count equals the sum of the counters and the number of add calls folded
\* into the store; no call has raised.
C2_MassConservation ==
    /\ err = "none"
    /\ self.count = SumSeq(self.bins)
    /\ self.count = TotalAdded(added.self)
    /\ store.count = SumSeq(store.bins)
    /\ store.count = TotalAdded(added.store)

\* C2 witness: an add on a collapsing store shifted the window to the right and
\* folded counted keys into the new bin 0.
C2_Witness ==
    /\ last.op = "add" /\ nmerges = 0
    /\ Collapsing(last.pre)
    /\ last.pre.count >= 2
    /\ last.key - last.pre.max_key < last.pre.max_bins
    /\ Target.min_key > last.pre.min_key
    /\ Target.count = 3
    /\ Target.bins[1] >= 2

\* C3: self.merge(store) leaves self.count equal to the sum of the two counts
\* before the call and equal to the sum of self.bins.
C3_MergeConservesMass ==
    last.op = "merge" =>
        /\ err = "none"
        /\ self.count = last.pre.count + last.arg.count
        /\ self.count = SumSeq(self.bins)

\* C3 witness: a merge of two non-empty collapsing stores where store lies
\* partly below self's window, so that its low bins were folded into bins[0].
C3_Witness ==
    /\ last.op = "merge"
    /\ Collapsing(last.pre)
    /\ last.pre.count > 0 /\ last.arg.count > 0
    /\ last.pre.max_key > last.arg.max_key
    /\ self.min_key > last.arg.min_key
    /\ SumSeq(PySliceTo(last.arg.bins, self.min_key - last.arg.min_key)) > 0

\* C4: the counters of a DenseStore are exactly the add calls per key, both for
\* a store that received its keys directly (store, and self before a merge) and
\* for self after merging store into it: merging equals adding directly.
C4_DenseMergeEquivalence ==
    Dense(self) =>
        /\ ExactCounters(self, added.self)
        /\ ExactCounters(store, added.store)

\* C4 witness: two non-empty DenseStores with a common key and a key only store
\* holds have been merged.
C4_Witness ==
    /\ last.op = "merge" /\ Dense(self)
    /\ last.pre.count > 0 /\ last.arg.count > 0
    /\ \E k \in Keys : CounterAt(last.pre, k) > 0 /\ CounterAt(last.arg, k) > 0
    /\ \E k \in Keys : CounterAt(last.pre, k) = 0 /\ CounterAt(last.arg, k) > 0
    /\ ExactCounters(self, added.self)

\* C5: after self.merge(store) on two collapsing stores built with the same
\* arguments, every key strictly above self.min_key holds exactly the add calls
\* made for it on either store, and the rest of the mass is in bins[0].
C5_CollapsingMergeEquivalence ==
    (last.op = "merge" /\ Collapsing(self)) =>
        /\ ExactAboveMinKey(self, added.self)
        /\ self.count = TotalAdded(added.self)
        /\ self.count = SumSeq(self.bins)

\* C6: add(key) with key < min_key on a non-empty collapsing store that already
\* has max_bins bins (or more) returns normally, increments bins[0] and count by
\* one and changes nothing else (length, min_key, max_key, other counters).
C6_LeftAddAtCapacity ==
    ( /\ last.op = "add"
      /\ Collapsing(last.pre)
      /\ last.pre.count > 0
      /\ Len(last.pre.bins) >= last.pre.max_bins
      /\ last.key < last.pre.min_key )
    => /\ err = "none"
       /\ Target = [ last.pre EXCEPT !.bins[1] = @ + 1, !.count = @ + 1 ]

\* C6 witness: such an add on a store with several bins, one key below the
\* window; bins[0] was incremented.
C6_Witness ==
    /\ last.op = "add"
    /\ Collapsing(last.pre)
    /\ last.pre.count > 0
    /\ Len(last.pre.bins) >= last.pre.max_bins
    /\ Len(last.pre.bins) >= 2
    /\ last.key = last.pre.min_key - 1
    /\ err = "none"
    /\ Target.bins[1] = last.pre.bins[1] + 1
    /\ Target.count = last.pre.count + 1

\* C7: on a store with count > 0, key_at_rank(rank) for 1 <= rank <= count is
\* the smallest key whose cumulative count from below reaches rank, and for
\* rank > count it is max_key.
C7_KeyAtRank ==
    last.op = "key_at_rank" =>
        LET s == last.pre
            r == last.rank
            k == last.result
        IN  IF r <= s.count
            THEN /\ k \in WindowKeys(s)
                 /\ CumulativeUpTo(s, k) >= r
                 /\ \A j \in (s.min_key - 1)..(k - 1) : CumulativeUpTo(s, j) < r
            ELSE k = s.max_key

\* C7 witness: a query with 1 < rank <= count answered by a key above the
\* lowest counted key.
C7_Witness ==
    /\ last.op = "key_at_rank"
    /\ last.rank > 1 /\ last.rank <= last.pre.count
    /\ CumulativeUpTo(last.pre, last.result - 1) > 0
    /\ CumulativeUpTo(last.pre, last.result) >= last.rank

\* C8: on a store with count > 0, reversed_key_at_rank(rank) for
\* 1 <= rank <= count is the largest key whose cumulative count from above
\* reaches rank, and for rank > count it is min_key.
C8_ReversedKeyAtRank ==
    last.op = "reversed_key_at_rank" =>
        LET s == last.pre
            r == last.rank
            k == last.result
        IN  IF r <= s.count
            THEN /\ k \in WindowKeys(s)
                 /\ CumulativeFrom(s, k) >= r
                 /\ \A j \in (k + 1)..(s.min_key + Len(s.bins)) :
                        CumulativeFrom(s, j) < r
            ELSE k = s.min_key

\* C8 witness: a query with 1 < rank <= count answered by a key below the
\* highest counted key.
C8_Witness ==
    /\ last.op = "reversed_key_at_rank"
    /\ last.rank > 1 /\ last.rank <= last.pre.count
    /\ CumulativeFrom(last.pre, last.result + 1) > 0
    /\ CumulativeFrom(last.pre, last.result) >= last.rank

\* C9: a store whose arguments are invalid (max_bins <= 0 or chunk_size <= 0) is
\* never constructed, and no call other than the constructor raises.
C9_InvalidConfigRejected ==
    /\ InvalidArgs(args.self) => ~constructed
    /\ err # "none" => last.op = "__init__"

\* C10: when an add grows a collapsing store built with chunk_size = c and the
\* array stays below max_bins, the number of bins added is
\* c * ceil(required_growth / c).
C10_ChunkGranularity ==
    ( /\ last.op = "add" /\ err = "none"
      /\ Collapsing(last.pre)
      /\ last.pre.count > 0
      /\ Len(Target.bins) > Len(last.pre.bins)
      /\ Len(Target.bins) < last.pre.max_bins )
    => LET c == args.self.chunk_size
           required_growth ==
               IF last.key > last.pre.max_key
               THEN last.key - last.pre.max_key
               ELSE last.pre.min_key - last.key
       IN  Len(Target.bins) - Len(last.pre.bins) = c * CeilDiv(required_growth, c)

\* the object the last call was not made on
Other == IF last.target = "self" THEN store ELSE self

C12_EmptyMerges ==
    last.op = "merge" =>
        /\ last.arg.count = 0 => self = last.pre
        /\ (last.pre.count = 0 /\ last.arg.count > 0) =>
               /\ self.bins = last.arg.bins
               /\ self.count = last.arg.count
               /\ self.min_key = last.arg.min_key
               /\ self.max_key = last.arg.max_key

\* a non-empty store was merged into an empty self whose bins differed
C12_Witness ==
    /\ last.op = "merge"
    /\ last.pre.count = 0 /\ last.arg.count > 0
    /\ last.pre.bins # last.arg.bins
    /\ self.bins = last.arg.bins

\* C13: every list subscript that add and merge evaluate lies in
\* 0 .. len - 1 of its list, in every state reached by add and merge on two
\* stores built with the same arguments; no subscript is negative.
C13_IndicesInBounds ==
    /\ last.op = "add" =>
           \A x \in add_subscripts(last.pre, last.key) : 0 <= x.i /\ x.i < x.n
    /\ last.op = "merge" =>
           \A x \in merge_subscripts(last.pre, last.arg) : 0 <= x.i /\ x.i < x.n

\* C14: in every state reached by add and merge, for both kinds of store, a
\* store with count > 0 has len(bins) >= max_key - min_key + 1 and
\* min_key <= max_key.
C14_WindowInvariant ==
    \A s \in { self, store } :
        s.count > 0 => /\ Len(s.bins) >= s.max_key - s.min_key + 1
                       /\ s.min_key <= s.max_key

\* a merge of two non-empty stores moved the window of self
C14_Witness ==
    /\ last.op = "merge"
    /\ last.pre.count > 0 /\ last.arg.count > 0
    /\ << self.min_key, self.max_key >> # << last.pre.min_key, last.pre.max_key >>
    /\ Len(self.bins) = self.max_key - self.min_key + 1

\* C15: when a collapsing store with count = c > 0 receives add(key) with
\* key - max_key >= max_bins, then afterwards len(bins) = max_bins,
\* max_key = key, min_key = key - max_bins + 1, count = c + 1, the counter of
\* min_key (bins[0]) holds c, the counter of key holds the new increment (so
\* c + 1 when max_bins = 1 and the two are the same bin), and every other
\* counter is 0.
C15_FullCollapse ==
    ( /\ last.op = "add"
      /\ Collapsing(last.pre)
      /\ last.pre.count > 0
      /\ last.key - last.pre.max_key >= last.pre.max_bins )
    => /\ Len(Target.bins) = last.pre.max_bins
       /\ Target.max_key = last.key
       /\ Target.min_key = last.key - last.pre.max_bins + 1
       /\ Target.count = last.pre.count + 1
       /\ \A k \in WindowKeys(Target) :
              CounterAt(Target, k) =
                  (IF k = Target.min_key THEN last.pre.count ELSE 0)
                  + (IF k = last.key THEN 1 ELSE 0)

\* a full collapse of a store with more than one bin happened
C15_Witness ==
    /\ last.op = "add"
    /\ Collapsing(last.pre)
    /\ last.pre.count > 0
    /\ last.key - last.pre.max_key >= last.pre.max_bins
    /\ last.pre.max_bins > 1
    /\ Target.bins[1] = last.pre.count
    /\ CounterAt(Target, last.key) = 1

\* C16: when a collapsing store with count > 0 receives add(key) with
\* max_key < key < max_key + max_bins and key - min_key >= max_bins, then
\* afterwards min_key = key - max_bins + 1, max_key = key,
\* len(bins) = max_bins, every key strictly above the new min_key has its
\* previous counter (plus the increment at key), and the counter of the new
\* min_key is its previous counter plus the sum of the previous counters of
\* all keys strictly below the new min_key.
C16_WindowShift ==
    ( /\ last.op = "add"
      /\ Collapsing(last.pre)
      /\ last.pre.count > 0
      /\ last.pre.max_key < last.key
      /\ last.key < last.pre.max_key + last.pre.max_bins
      /\ last.key - last.pre.min_key >= last.pre.max_bins )
    => /\ Target.min_key = last.key - last.pre.max_bins + 1
       /\ Target.max_key = last.key
       /\ Len(Target.bins) = last.pre.max_bins
       /\ \A k \in WindowKeys(Target) \cup WindowKeys(last.pre) :
              k > Target.min_key =>
                  CounterAt(Target, k) =
                      CounterAt(last.pre, k) + (IF k = last.key THEN 1 ELSE 0)
       /\ CounterAt(Target, Target.min_key) =
              CounterAt(last.pre, Target.min_key)
              + CumulativeUpTo(last.pre, Target.min_key - 1)
              + (IF Target.min_key = last.key THEN 1 ELSE 0)

\* a window shift folded a non-zero count into the new lowest bin and kept a
\* non-zero counter above it
C16_Witness ==
    /\ last.op = "add"
    /\ Collapsing(last.pre)
    /\ last.pre.count > 0
    /\ last.pre.max_key < last.key
    /\ last.key < last.pre.max_key + last.pre.max_bins
    /\ last.key - last.pre.min_key >= last.pre.max_bins
    /\ CumulativeUpTo(last.pre, Target.min_key - 1) > 0
    /\ Target.bins[1] = CounterAt(last.pre, Target.min_key)
                        + CumulativeUpTo(last.pre, Target.min_key - 1)

\* C17 as stated: once len(bins) of a collapsing store has reached max_bins,
\* every add leaves min_key greater than or equal to its previous value and
\* len(bins) at least max_bins.
C17_CollapseOneWay_AsStated ==
    ( /\ last.op = "add"
      /\ Collapsing(last.pre)
      /\ Len(last.pre.bins) >= last.pre.max_bins )
    => /\ Target.min_key >= last.pre.min_key
       /\ Len(Target.bins) >= last.pre.max_bins

\* C17: once len(bins) of a collapsing store that holds at least one key
\* (count > 0) has reached max_bins, every add leaves min_key greater than or
\* equal to its previous value and len(bins) at least max_bins: the window
\* never re-expands to the left.
C17_CollapseOneWay ==
    ( /\ last.op = "add"
      /\ Collapsing(last.pre)
      /\ last.pre.count > 0
      /\ Len(last.pre.bins) >= last.pre.max_bins )
    => /\ Target.min_key >= last.pre.min_key
       /\ Len(Target.bins) >= last.pre.max_bins

\* an add below min_key reached a non-empty store at capacity and the window
\* stayed where it was
C17_Witness ==
    /\ last.op = "add"
    /\ Collapsing(last.pre)
    /\ last.pre.count > 0
    /\ Len(last.pre.bins) >= last.pre.max_bins
    /\ last.key < last.pre.min_key
    /\ Target.min_key = last.pre.min_key

\* the largest key with an add call recorded in h, and the highest key of s
\* whose counter is not zero
LargestAdded(h) ==
    CHOOSE k \in Keys : h[k] > 0 /\ \A j \in Keys : h[j] > 0 => j <= k
HighestNonZero(s) ==
    CHOOSE k \in WindowKeys(s) :
        /\ CounterAt(s, k) > 0
        /\ \A j \in WindowKeys(s) : CounterAt(s, j) > 0 => j <= k

\* C18: after any non-empty sequence of add calls on a collapsing store with
\* max_bins >= 1, the highest key whose counter is not zero is the largest
\* key ever added, and key_at_rank(count) and reversed_key_at_rank(1) both
\* return it.
C18_HighEndUndisturbed ==
    ( Collapsing(self) /\ self.count > 0 )
    => /\ \E k \in WindowKeys(self) : CounterAt(self, k) > 0
       /\ HighestNonZero(self) = LargestAdded(added.self)
       /\ key_at_rank(self, self.count) = LargestAdded(added.self)
       /\ reversed_key_at_rank(self, 1) = LargestAdded(added.self)

\* reversed_key_at_rank(1) returned the largest key added on a store that has
\* folded a lower key into its boundary bin
C18_Witness ==
    /\ Collapsing(self)
    /\ self.count > 1
    /\ \E k \in Keys : added.self[k] > 0 /\ k < self.min_key
    /\ last.op = "reversed_key_at_rank" /\ last.rank = 1
    /\ last.result = LargestAdded(added.self)
    /\ key_at_rank(self, self.count) = last.result

\* C19: for any two collapsing stores, possibly with different max_bins,
\* self.merge(store) leaves self.max_bins as it was before the call, also
\* when self is empty and merge is carried out by copy.
C19_MergeKeepsCapacity ==
    last.op = "merge" => self.max_bins = last.pre.max_bins


====
